---- MODULE Spec2Model ----
(***************************************************************************)
(* The session protocol servers of the Client-Server repository.           *)
(*                                                                         *)
(*   src/A/server.py  the asyncio server   (impl = "A")                    *)
(*   src/B/server.py  the threaded server  (impl = "B")                    *)
(*                                                                         *)
(* One behaviour of the model is one run of one of the two servers: Init   *)
(* picks impl, and every action is guarded by it.  The variables are the   *)
(* fields of the server object (sessions, client_addresses, logical_clock),*)
(* the timer threads of B that outlive their session, and three history    *)
(* variables that record what the last step received and emitted, and a   *)
(* fourth (restarted) that records whether it started the idle timer of    *)
(* the session it handled.                                                 *)
(*                                                                         *)
(* Three more specifications follow the server claims: ClockSpec applies   *)
(* update_logical_clock to chosen inputs, ClientSpec is one run of a       *)
(* client (src/A/client.py or src/B/client.py) against any server, and     *)
(* CodecSpec packs and unpacks a header.  Each fixes the variables of the  *)
(* others.                                                                 *)
(***************************************************************************)
EXTENDS Integers, Sequences, FiniteSets, TLC

VARIABLES impl, sessions, client_addresses, logical_clock, orphans,
          ev, sent, lost, restarted, cli, fn

vars == <<impl, sessions, client_addresses, logical_clock, orphans,
          ev, sent, lost, restarted, cli, fn>>

\* the variables of a server run
serverVars == <<impl, sessions, client_addresses, logical_clock, orphans,
                ev, sent, lost, restarted>>
\* the variables a server run leaves alone: the client process (cli) and
\* the function application under check (fn)
otherVars == <<cli, fn>>

(***************************************************************************)
(* Program constants.                                                      *)
(***************************************************************************)
HELLO == 1
DATA == 2
ALIVE == 3
GOODBYE == 4
\* 0xC461
MAGIC == 50273
VERSION == 1
\* struct.calcsize("!HBBIIQ")
HEADER_LEN == 20
\* data[8:12] is the last slice datagram_received of A unpacks
DISPATCH_LEN == 12

(***************************************************************************)
(* Bounds of the model.                                                    *)
(***************************************************************************)
\* sequence numbers carried by inbound datagrams are 0..MaxSeq
MaxSeq == 3
\* no step is taken once the logical clock has reached MaxClock
MaxClock == 6
\* the logical-clock value an inbound datagram carries is 0 or RecvClock
RecvClock == 2
\* timer threads of one B session that are inside issue_timeout at once
MaxFiring == 1

Addresses == {"a1", "a2"}
SessionIds == {1}
Seqs == 0..MaxSeq
\* a command byte that is none of the four commands
UnknownCommand == HELLO + DATA + ALIVE + GOODBYE
\* payload bytes: none, valid UTF-8 text, bytes that are not valid UTF-8
Payloads == {"empty", "text", "binary"}

PayloadLen(p) == IF p = "empty" THEN 0 ELSE 2

(***************************************************************************)
(* Inbound datagrams.  A datagram is its length, the header fields its     *)
(* bytes hold, the kind of its payload and the address it came from.  The  *)
(* fields of a datagram shorter than the header are those of the header it *)
(* is the start of.                                                        *)
(***************************************************************************)
Dg(len, magic, version, command, seq, sid, clock, payload, addr) ==
  [len |-> len, magic |-> magic, version |-> version, command |-> command,
   seq |-> seq, sid |-> sid, clock |-> clock, payload |-> payload, addr |-> addr]

\* HELLO with any sequence number and clock
Hellos ==
  { Dg(HEADER_LEN, MAGIC, VERSION, HELLO, q, i, k, "empty", a) :
      q \in Seqs, i \in SessionIds, k \in {0, RecvClock}, a \in Addresses }

\* DATA with any sequence number and payload
Datas ==
  { Dg(HEADER_LEN + PayloadLen(p), MAGIC, VERSION, DATA, q, i, 0, p, a) :
      q \in Seqs, i \in SessionIds, p \in Payloads, a \in Addresses }
  \cup
  { Dg(HEADER_LEN + PayloadLen("text"), MAGIC, VERSION, DATA, q, i, RecvClock, "text", a) :
      q \in Seqs, i \in SessionIds, a \in Addresses }

\* GOODBYE, ALIVE and a command that is none of the four
Others ==
  { Dg(HEADER_LEN, MAGIC, VERSION, c, 0, i, k, "empty", a) :
      c \in {GOODBYE, ALIVE, UnknownCommand}, i \in SessionIds,
      k \in {0}, a \in Addresses }

\* wrong magic or wrong version, otherwise a full header
BadHeader ==
  { Dg(HEADER_LEN, m[1], m[2], c, 0, i, 0, "empty", a) :
      m \in {<<0, VERSION>>, <<MAGIC, VERSION + 1>>},
      c \in {HELLO, DATA}, i \in SessionIds, a \in Addresses }

\* fewer than 20 bytes: the start of a well-formed HELLO or DATA header
Short ==
  { Dg(n, MAGIC, VERSION, c, 0, i, 0, "empty", a) :
      n \in {0, DISPATCH_LEN - 1, DISPATCH_LEN, HEADER_LEN - 1},
      c \in {HELLO, DATA}, i \in SessionIds, a \in Addresses }

Datagrams == Hellos \cup Datas \cup Others \cup BadHeader \cup Short

\* the value of ev.dg for a step that received nothing (a timer)
NoDatagram == Dg(0, 0, 0, 0, 0, 0, 0, "empty", "none")

(***************************************************************************)
(* bytes.decode(): fails on bytes that are not valid UTF-8.                *)
(***************************************************************************)
DecodeFails(p) == p = "binary"

\* every command opens a session
opens_session_AnyCommand(command) == TRUE

(***************************************************************************)
(* The test both servers make on a datagram whose session_id is not in the *)
(* table ("command == HELLO"): only then is a session object created.      *)
(***************************************************************************)
opens_session(command) == command = HELLO

\* the received value is never merged
update_logical_clock_NoMerge(clock, received) == clock + 1

(***************************************************************************)
(* update_logical_clock(received_clock=None): received is <<>> for None    *)
(* and <<v>> for a value.  The server classes of A and B hold the same     *)
(* method.                                                                 *)
(***************************************************************************)
update_logical_clock(clock, received) ==
  IF received # <<>> /\ received[1] > clock
  THEN received[1] + 1
  ELSE clock + 1

(***************************************************************************)
(* Client.update_logical_clock(new_value=None) of src/A/client.py, and the *)
(* same method of UDPClientProtocol in src/B/client.py: the nested form.   *)
(***************************************************************************)
Client_update_logical_clock(clock, new_value) ==
  IF new_value # <<>>
  THEN IF new_value[1] > clock
       THEN new_value[1] + 1
       ELSE clock + 1
  ELSE clock + 1

(***************************************************************************)
(* A handler runs on a context r: the session object s it works on,        *)
(* whether that object is (still) in server.sessions, the server's clock,  *)
(* what it sent and reported so far, and whether an exception ended it.    *)
(***************************************************************************)
Ctx(s, clock) ==
  [s |-> s, inTable |-> TRUE, clock |-> clock, out |-> <<>>, lost |-> {},
   raised |-> FALSE, started |-> FALSE]

\* an outbound message: a 20-byte header (fmt "header"), or the plain
\* string send_rejection of B sends (fmt "string")
Msg(command, seq, sid, clock, to) ==
  [fmt |-> "header", command |-> command, seq |-> seq, sid |-> sid,
   clock |-> clock, to |-> to]

(***************************************************************************)
(* Server A: ServerSession                                                 *)
(***************************************************************************)
A_ServerSession(client_address, session_id, initial_sequence_number) ==
  [client_address |-> client_address,
   session_id |-> session_id,
   expected_sequence_number |-> initial_sequence_number + 1,
   state |-> "WAIT_FOR_HELLO",
   idle_timer |-> FALSE]

A_send_message(r, command, sequence_number) ==
  LET c == update_logical_clock(r.clock, <<>>) IN
  [r EXCEPT !.clock = c,
            !.out = Append(@, Msg(command, sequence_number, r.s.session_id, c,
                                  r.s.client_address))]

\* cancel_timer, then create_task(session_timeout())
A_set_timer(r) == [r EXCEPT !.s.idle_timer = TRUE, !.started = TRUE]

\* cancel_timer, then del server.sessions[session_id]
A_terminate(r) == [r EXCEPT !.s.idle_timer = FALSE, !.inTable = FALSE]

\* send GOODBYE; state = "DONE"; terminate()
A_protocol_error(r) ==
  A_terminate([A_send_message(r, GOODBYE, 0) EXCEPT !.s.state = "DONE"])

A_handle_hello(r, sequence_number) ==
  IF r.s.state = "WAIT_FOR_HELLO"
  THEN A_set_timer([A_send_message(r, HELLO, sequence_number)
                      EXCEPT !.s.state = "RECEIVE"])
  ELSE A_protocol_error(r)

\* handle_data without its duplicate branch: a sequence number one behind the
\* expected one falls through to the protocol error
A_handle_data_NoDuplicateBranch(r, sequence_number, data, received_logical_clock) ==
  IF r.s.state # "RECEIVE" THEN r
  ELSE
    LET r1 == [r EXCEPT !.clock = update_logical_clock(@, <<received_logical_clock>>)]
        e == r.s.expected_sequence_number
    IN
    IF sequence_number = e
    THEN IF DecodeFails(data) THEN [r1 EXCEPT !.raised = TRUE]
         ELSE A_set_timer(A_send_message(
                [r1 EXCEPT !.s.expected_sequence_number = e + 1],
                ALIVE, sequence_number))
    ELSE IF sequence_number > e
    THEN LET r2 == [r1 EXCEPT !.lost = e .. (sequence_number - 1),
                              !.s.expected_sequence_number = sequence_number + 1]
         IN IF DecodeFails(data) THEN [r2 EXCEPT !.raised = TRUE]
            ELSE A_send_message(r2, ALIVE, sequence_number)
    ELSE A_protocol_error(r1)

A_handle_data(r, sequence_number, data, received_logical_clock) ==
  IF r.s.state # "RECEIVE" THEN r
  ELSE
    LET r1 == [r EXCEPT !.clock = update_logical_clock(@, <<received_logical_clock>>)]
        e == r.s.expected_sequence_number
    IN
    IF sequence_number = e
    THEN IF DecodeFails(data) THEN [r1 EXCEPT !.raised = TRUE]
         ELSE A_set_timer(A_send_message(
                [r1 EXCEPT !.s.expected_sequence_number = e + 1],
                ALIVE, sequence_number))
    ELSE IF sequence_number > e
    THEN LET r2 == [r1 EXCEPT !.lost = e .. (sequence_number - 1),
                              !.s.expected_sequence_number = sequence_number + 1]
         IN IF DecodeFails(data) THEN [r2 EXCEPT !.raised = TRUE]
            ELSE A_send_message(r2, ALIVE, sequence_number)
    ELSE IF sequence_number = e - 1
    THEN r1
    ELSE A_protocol_error(r1)

A_handle_goodbye(r) ==
  IF r.s.state = "RECEIVE" THEN A_protocol_error(r) ELSE r

A_handle_message(r, dg) ==
  IF dg.len < HEADER_LEN THEN [r EXCEPT !.raised = TRUE]
  ELSE IF dg.magic # MAGIC \/ dg.version # VERSION THEN A_protocol_error(r)
  ELSE IF dg.sid # r.s.session_id THEN A_protocol_error(r)
  ELSE IF dg.command = HELLO THEN A_handle_hello(r, dg.seq)
  ELSE IF dg.command = DATA THEN A_handle_data(r, dg.seq, dg.payload, dg.clock)
  ELSE IF dg.command = GOODBYE THEN A_handle_goodbye(r)
  ELSE A_protocol_error(r)

\* server.sessions after a handler ended on context r for session id sid
Commit(table, sid, r) ==
  IF r.inTable
  THEN [k \in DOMAIN table \cup {sid} |-> IF k = sid THEN r.s ELSE table[k]]
  ELSE [k \in DOMAIN table \ {sid} |-> table[k]]

\* client_addresses.setdefault(session_id, addr): the address of the first
\* session under an id is never replaced
A_store_address_KeepFirst(ca, session_id, addr) ==
  IF session_id \in DOMAIN ca THEN ca
  ELSE [k \in DOMAIN ca \cup {session_id} |-> IF k = session_id THEN addr ELSE ca[k]]

\* self.client_addresses[session_id] = addr
A_store_address(ca, session_id, addr) ==
  [k \in DOMAIN ca \cup {session_id} |-> IF k = session_id THEN addr ELSE ca[k]]

\* what the last step was: the operation, the datagram it received and the
\* session stored under that datagram's id before the step (<<>> for none)
Pre(sid) == IF sid \in DOMAIN sessions THEN <<sessions[sid]>> ELSE <<>>

Event(op, dg) == [op |-> op, dg |-> dg, pre |-> Pre(dg.sid)]

(***************************************************************************)
(* UDPServerProtocol.datagram_received together with the handle_message    *)
(* task it creates.  The task is started with call_soon and has no         *)
(* suspension point (send_message and set_timer never await), so it runs   *)
(* to its end before the loop reads the next datagram and before a timer   *)
(* that expires later wakes its session_timeout task.                      *)
(***************************************************************************)
A_datagram_received(dg) ==
  /\ impl = "A"
  /\ UNCHANGED otherVars
  /\ logical_clock < MaxClock
  /\ ev' = Event("datagram", dg)
  /\ UNCHANGED <<impl, orphans>>
  /\ IF dg.len < DISPATCH_LEN
     THEN \* struct.error, caught
          /\ sent' = <<>> /\ lost' = {} /\ restarted' = FALSE
          /\ UNCHANGED <<sessions, client_addresses, logical_clock>>
     ELSE IF dg.sid \in DOMAIN sessions
     THEN IF dg.addr = client_addresses[dg.sid]
          THEN LET r == A_handle_message(Ctx(sessions[dg.sid], logical_clock), dg) IN
               /\ sessions' = Commit(sessions, dg.sid, r)
               /\ logical_clock' = r.clock
               /\ sent' = r.out /\ lost' = r.lost /\ restarted' = r.started
               /\ UNCHANGED client_addresses
          ELSE /\ sent' = <<>> /\ lost' = {} /\ restarted' = FALSE
               /\ UNCHANGED <<sessions, client_addresses, logical_clock>>
     ELSE IF opens_session(dg.command)
     THEN LET new_session == A_ServerSession(dg.addr, dg.sid, dg.seq)
              r == A_handle_message(Ctx(new_session, logical_clock), dg)
          IN /\ sessions' = Commit(sessions, dg.sid, r)
             /\ client_addresses' = A_store_address(client_addresses, dg.sid, dg.addr)
             /\ logical_clock' = r.clock
             /\ sent' = r.out /\ lost' = r.lost /\ restarted' = r.started
     ELSE /\ sent' = <<>> /\ lost' = {} /\ restarted' = FALSE
          /\ UNCHANGED <<sessions, client_addresses, logical_clock>>

(***************************************************************************)
(* ServerSession.session_timeout after its sleep: the task of a timer that *)
(* was not cancelled.                                                      *)
(***************************************************************************)
A_session_timeout(sid) ==
  /\ impl = "A"
  /\ UNCHANGED otherVars
  /\ logical_clock < MaxClock
  /\ sid \in DOMAIN sessions
  /\ sessions[sid].idle_timer
  /\ LET r == A_protocol_error(Ctx(sessions[sid], logical_clock)) IN
     /\ sessions' = Commit(sessions, sid, r)
     /\ logical_clock' = r.clock
     /\ sent' = r.out /\ lost' = r.lost /\ restarted' = r.started
  /\ ev' = Event("timeout", [NoDatagram EXCEPT !.sid = sid])
  /\ UNCHANGED <<impl, client_addresses, orphans>>

(***************************************************************************)
(* Server B: ServerSession.  timer is whether the Timer the session holds  *)
(* is still waiting (started, not cancelled, not expired); firing counts   *)
(* the timer threads that passed the cancellation check of Timer.run and   *)
(* have not yet sent their GOODBYE, closing those that sent it and have    *)
(* not yet cleared active.                                                 *)
(***************************************************************************)
B_ServerSession(client_address, session_id) ==
  [client_address |-> client_address,
   session_id |-> session_id,
   expected_sequence |-> 0,
   active |-> TRUE,
   timer |-> FALSE,
   firing |-> 0,
   closing |-> 0]

\* cancel the waiting timer, start a new one
B_set_timer(r) == [r EXCEPT !.s.timer = TRUE, !.started = TRUE]

B_cancel_timer(r) == [r EXCEPT !.s.timer = FALSE]

B_send_message(r, command, seq_num) ==
  LET c == update_logical_clock(r.clock, <<>>) IN
  [r EXCEPT !.clock = c,
            !.out = Append(@, Msg(command, seq_num, r.s.session_id, c,
                                  r.s.client_address))]

B_send_goodbye(r) == B_send_message(r, GOODBYE, r.s.expected_sequence)

B_handle_hello(r, seq_num) == B_send_message(r, HELLO, seq_num)

\* payload is None for a datagram of at most 20 bytes: None.decode() raises
B_PayloadDecodeFails(dg) == dg.len <= HEADER_LEN \/ DecodeFails(dg.payload)

B_handle_data(r, dg) ==
  LET e == r.s.expected_sequence
      r1 == IF dg.seq > e
            THEN [r EXCEPT !.lost = e .. (dg.seq - 1),
                           !.s.expected_sequence = dg.seq + 1]
            ELSE r
  IN
  IF dg.seq < e THEN r
  ELSE IF B_PayloadDecodeFails(dg) THEN [r1 EXCEPT !.raised = TRUE]
  ELSE B_send_message([r1 EXCEPT !.s.expected_sequence = @ + 1], ALIVE, dg.seq)

B_handle_goodbye(r) == [B_send_goodbye(r) EXCEPT !.s.active = FALSE]

B_process_message(r, dg) ==
  LET r0 == B_set_timer(B_cancel_timer(r)) IN
  IF dg.magic # MAGIC \/ dg.version # VERSION THEN r0
  ELSE IF dg.command = HELLO THEN B_handle_hello(r0, dg.seq)
  ELSE IF dg.command = DATA THEN B_handle_data(r0, dg)
  ELSE IF dg.command = GOODBYE THEN B_handle_goodbye(r0)
  ELSE r0

\* a session that ended stays in the table
B_reap_Never(r) == r

\* the end of handle_client: "if not session.active: del sessions[session_id]",
\* not reached when process_message raised
B_reap(r) ==
  IF ~r.raised /\ ~r.s.active THEN [r EXCEPT !.inTable = FALSE] ELSE r

\* session.client_address != client_address
B_other_client(session, client_address) == session.client_address # client_address

\* the timer threads a session object removed from the table leaves behind
\* (its waiting Timer, which del does not cancel, and the threads already in
\* issue_timeout before their send): each will send GOODBYE with the object's
\* expected_sequence.  orphans is a set, so threads that will send the same
\* GOODBYE are one element; a thread past its send only clears active on the
\* unreachable object and is dropped.
B_left_behind(r) ==
  IF ~r.inTable /\ (r.s.timer \/ r.s.firing > 0)
  THEN {[session_id |-> r.s.session_id, client_address |-> r.s.client_address,
         expected_sequence |-> r.s.expected_sequence]}
  ELSE {}

\* the plain string send_rejection sends
Rejection(sid, to) ==
  [fmt |-> "string", command |-> 0, seq |-> 0, sid |-> sid, clock |-> 0, to |-> to]

(***************************************************************************)
(* UDPServer.handle_client, one thread per datagram.  The clock merge      *)
(* comes before the lock and the rest runs under self.lock; the clock has  *)
(* a lock of its own and only grows, so the thread is one step here.  A    *)
(* timer thread takes no lock: its steps (B_timer_expire and the two       *)
(* halves of issue_timeout) interleave with this one, and its write of     *)
(* active during handle_client is read by the final check as if it had     *)
(* come before the step.                                                   *)
(***************************************************************************)
B_handle_client(dg) ==
  /\ impl = "B"
  /\ UNCHANGED otherVars
  /\ logical_clock < MaxClock
  /\ ev' = Event("datagram", dg)
  /\ UNCHANGED <<impl, client_addresses>>
  /\ IF dg.len < HEADER_LEN
     THEN \* struct.error, caught
          /\ sent' = <<>> /\ lost' = {} /\ restarted' = FALSE
          /\ UNCHANGED <<sessions, logical_clock, orphans>>
     ELSE LET c1 == update_logical_clock(logical_clock, <<dg.clock>>) IN
          IF dg.sid \in DOMAIN sessions /\ B_other_client(sessions[dg.sid], dg.addr)
          THEN /\ logical_clock' = update_logical_clock(c1, <<>>)
               /\ sent' = <<Rejection(dg.sid, dg.addr)>> /\ lost' = {} /\ restarted' = FALSE
               /\ UNCHANGED <<sessions, orphans>>
          ELSE IF dg.sid \notin DOMAIN sessions /\ ~opens_session(dg.command)
          THEN /\ logical_clock' = c1
               /\ sent' = <<>> /\ lost' = {} /\ restarted' = FALSE
               /\ UNCHANGED <<sessions, orphans>>
          ELSE LET session == IF dg.sid \in DOMAIN sessions
                              THEN sessions[dg.sid]
                              ELSE [B_ServerSession(dg.addr, dg.sid) EXCEPT !.timer = TRUE]
                   r == B_reap(B_process_message(Ctx(session, c1), dg))
               IN /\ sessions' = Commit(sessions, dg.sid, r)
                  /\ orphans' = orphans \cup B_left_behind(r)
                  /\ logical_clock' = r.clock
                  /\ sent' = r.out /\ lost' = r.lost /\ restarted' = r.started

(***************************************************************************)
(* threading.Timer.run: the wait ended and finished is not set.  From here *)
(* on a cancel() no longer stops issue_timeout.                            *)
(***************************************************************************)
B_timer_expire(sid) ==
  /\ impl = "B"
  /\ UNCHANGED otherVars
  /\ logical_clock < MaxClock
  /\ sid \in DOMAIN sessions
  /\ sessions[sid].timer
  /\ sessions[sid].firing + sessions[sid].closing < MaxFiring
  /\ sessions' = [sessions EXCEPT ![sid].timer = FALSE, ![sid].firing = @ + 1]
  /\ ev' = Event("timer_expire", [NoDatagram EXCEPT !.sid = sid])
  /\ sent' = <<>> /\ lost' = {} /\ restarted' = FALSE
  /\ UNCHANGED <<impl, client_addresses, logical_clock, orphans>>

\* issue_timeout, first half: send_goodbye()
B_issue_timeout_send(sid) ==
  /\ impl = "B"
  /\ UNCHANGED otherVars
  /\ logical_clock < MaxClock
  /\ sid \in DOMAIN sessions
  /\ sessions[sid].firing > 0
  /\ LET r == B_send_goodbye(Ctx(sessions[sid], logical_clock)) IN
     /\ sessions' = [sessions EXCEPT ![sid].firing = @ - 1, ![sid].closing = @ + 1]
     /\ logical_clock' = r.clock
     /\ sent' = r.out /\ lost' = {} /\ restarted' = FALSE
  /\ ev' = Event("timeout", [NoDatagram EXCEPT !.sid = sid])
  /\ UNCHANGED <<impl, client_addresses, orphans>>

\* issue_timeout, second half: self.active = False
B_issue_timeout_deactivate(sid) ==
  /\ impl = "B"
  /\ UNCHANGED otherVars
  /\ logical_clock < MaxClock
  /\ sid \in DOMAIN sessions
  /\ sessions[sid].closing > 0
  /\ sessions' = [sessions EXCEPT ![sid].closing = @ - 1, ![sid].active = FALSE]
  /\ ev' = Event("timeout_done", [NoDatagram EXCEPT !.sid = sid])
  /\ sent' = <<>> /\ lost' = {} /\ restarted' = FALSE
  /\ UNCHANGED <<impl, client_addresses, logical_clock, orphans>>

\* issue_timeout of a timer whose session object is no longer in the table
B_orphan_timeout(o) ==
  /\ impl = "B"
  /\ UNCHANGED otherVars
  /\ logical_clock < MaxClock
  /\ o \in orphans
  /\ LET c == update_logical_clock(logical_clock, <<>>) IN
     /\ logical_clock' = c
     /\ sent' = <<Msg(GOODBYE, o.expected_sequence, o.session_id, c, o.client_address)>>
  /\ lost' = {} /\ restarted' = FALSE
  /\ orphans' = orphans \ {o}
  /\ ev' = Event("orphan_timeout", [NoDatagram EXCEPT !.sid = o.session_id])
  /\ UNCHANGED <<impl, sessions, client_addresses>>

\* no client process and no function application: the value of cli and fn in
\* a server run
NoClient == [impl |-> "none"]
NoCall == [op |-> "none"]

Init ==
  /\ impl \in {"A", "B"}
  /\ sessions = <<>>
  /\ client_addresses = <<>>
  /\ logical_clock = 0
  /\ orphans = {}
  /\ ev = [op |-> "init", dg |-> NoDatagram, pre |-> <<>>]
  /\ sent = <<>>
  /\ lost = {}
  /\ restarted = FALSE
  /\ cli = NoClient
  /\ fn = NoCall

Next ==
  \/ \E dg \in Datagrams : A_datagram_received(dg)
  \/ \E sid \in SessionIds : A_session_timeout(sid)
  \/ \E dg \in Datagrams : B_handle_client(dg)
  \/ \E sid \in SessionIds : B_timer_expire(sid)
  \/ \E sid \in SessionIds : B_issue_timeout_send(sid)
  \/ \E sid \in SessionIds : B_issue_timeout_deactivate(sid)
  \/ \E o \in orphans : B_orphan_timeout(o)

Spec == Init /\ [][Next]_vars

(***************************************************************************)
(* Vocabulary of the claims.                                               *)
(***************************************************************************)
\* the last step received a datagram
Received == ev.op = "datagram"

\* the session stored under the datagram's id before / after the step
HadSession == ev.pre # <<>>
Before == ev.pre[1]
HasSession == ev.dg.sid \in DOMAIN sessions
After == sessions[ev.dg.sid]

\* the spec's ACTIVE and TERMINATED, and expected_sequence_number
Active(s) == IF impl = "A" THEN s.state = "RECEIVE" ELSE s.active
Terminated(s) == IF impl = "A" THEN s.state = "DONE" ELSE ~s.active
Expected(s) == IF impl = "A" THEN s.expected_sequence_number ELSE s.expected_sequence
\* the session's idle timer is waiting to expire
TimerOf(s) == IF impl = "A" THEN s.idle_timer ELSE s.timer

\* the datagram has a full header with the right magic and version
FullHeader == ev.dg.len >= HEADER_LEN
ValidHeader == FullHeader /\ ev.dg.magic = MAGIC /\ ev.dg.version = VERSION

\* the datagram came from the address its session is bound to
FromPeer == Received /\ HadSession /\ ev.dg.addr = Before.client_address
\* ... and from another address
FromStranger == Received /\ HadSession /\ ev.dg.addr # Before.client_address

\* a valid DATA from the bound peer of a session that was ACTIVE
DataToActive ==
  FromPeer /\ ValidHeader /\ ev.dg.command = DATA /\ Active(Before)

\* the step sent exactly one message: a header with this command and
\* sequence number, to the datagram's source
Replied(command, seq) ==
  /\ Len(sent) = 1
  /\ sent[1].fmt = "header"
  /\ sent[1].command = command
  /\ sent[1].seq = seq
  /\ sent[1].sid = ev.dg.sid
  /\ sent[1].to = ev.dg.addr

\* the step sent exactly one message, a GOODBYE
SaidGoodbye ==
  /\ Len(sent) = 1
  /\ sent[1].fmt = "header"
  /\ sent[1].command = GOODBYE

\* the session the datagram addressed is as it was before the step
SessionUntouched ==
  IF HadSession THEN HasSession /\ After = Before ELSE ~HasSession

(***************************************************************************)
(* C1.  A HELLO with sequence number h that creates a session is answered  *)
(* by HELLO echoing h and leaves the session with expected sequence number *)
(* h+1; and a DATA that carries the expected sequence number of an ACTIVE  *)
(* session (so the DATA h+1 that follows) is accepted with no lost-packet  *)
(* report, answered by ALIVE echoing it, and advances expected by one      *)
(* (HELLO 0, then DATA 1: ALIVE 1 and expected 2).                         *)
(***************************************************************************)
C1_HelloThenData ==
  /\ (Received /\ ValidHeader /\ ~HadSession /\ ev.dg.command = HELLO)
       => /\ Replied(HELLO, ev.dg.seq)
          /\ HasSession
          /\ Expected(After) = ev.dg.seq + 1
  /\ (DataToActive /\ ev.dg.payload = "text" /\ ev.dg.seq = Expected(Before))
       => /\ lost = {}
          /\ Replied(ALIVE, ev.dg.seq)
          /\ HasSession
          /\ Expected(After) = ev.dg.seq + 1

(***************************************************************************)
(* C2.  A DATA from the bound peer of an ACTIVE session with expected      *)
(* sequence number N that carries s > N: the server reports exactly        *)
(* N..s-1 as lost, replies ALIVE echoing s and sets expected to s+1.       *)
(* Stated for a text payload, the case the claim's example is about (a     *)
(* payload that cannot be decoded is the subject of C3).                   *)
(***************************************************************************)
C2_GapAccepted ==
  (DataToActive /\ ev.dg.payload = "text" /\ ev.dg.seq > Expected(Before))
    => /\ lost = Expected(Before) .. (ev.dg.seq - 1)
       /\ Replied(ALIVE, ev.dg.seq)
       /\ HasSession
       /\ Expected(After) = ev.dg.seq + 1

(***************************************************************************)
(* C3.  A DATA with the expected sequence number N of an ACTIVE session is *)
(* accepted whatever its payload bytes are (none, text, not valid text):   *)
(* ALIVE echoing N is sent and expected becomes N+1.                       *)
(***************************************************************************)
C3_AnyPayloadAccepted ==
  (DataToActive /\ ev.dg.seq = Expected(Before))
    => /\ Replied(ALIVE, ev.dg.seq)
       /\ HasSession
       /\ Expected(After) = ev.dg.seq + 1

(***************************************************************************)
(* C4.  A DATA with sequence number N-1 for an ACTIVE session with         *)
(* expected sequence number N is a duplicate: nothing is sent, the session *)
(* stays in the table, and its expected sequence number and its state are  *)
(* what they were.                                                         *)
(***************************************************************************)
C4_DuplicateDiscarded ==
  (DataToActive /\ ev.dg.seq = Expected(Before) - 1)
    => /\ sent = <<>>
       /\ lost = {}
       /\ HasSession
       /\ Expected(After) = Expected(Before)
       /\ Active(After)
       /\ After.client_address = Before.client_address

\* a duplicate was received by a session that had advanced past its first
\* expected value, and was discarded
C4_Witness ==
  /\ DataToActive
  /\ ev.dg.seq = Expected(Before) - 1
  /\ ev.dg.seq >= 1
  /\ sent = <<>>
  /\ HasSession

(***************************************************************************)
(* C5.  A DATA with sequence number s < N-1 for an ACTIVE session with     *)
(* expected sequence number N is a protocol error: GOODBYE is sent and the *)
(* session is removed from the table.                                      *)
(***************************************************************************)
C5_OldSequenceTerminates ==
  (DataToActive /\ ev.dg.seq < Expected(Before) - 1)
    => /\ SaidGoodbye
       /\ ~HasSession

(***************************************************************************)
(* C6.  A datagram of any command and any length that carries an in-use    *)
(* session id and comes from an address other than the one the session is  *)
(* bound to leaves the session exactly as it was, in the table, and makes  *)
(* the session send nothing; and in A the address kept in client_addresses *)
(* for a stored session is the address that session is bound to.           *)
(***************************************************************************)
C6_CollisionIsolated ==
  /\ FromStranger
       => /\ HasSession
          /\ After = Before
          /\ \A i \in 1..Len(sent) : sent[i].fmt # "header"
  /\ impl = "A"
       => \A sid \in DOMAIN sessions :
            /\ sid \in DOMAIN client_addresses
            /\ client_addresses[sid] = sessions[sid].client_address

\* a HELLO for an in-use session id arrived from the other address while
\* the session was ACTIVE and had accepted DATA
C6_Witness ==
  /\ FromStranger
  /\ ev.dg.command = HELLO
  /\ ValidHeader
  /\ Active(Before)
  /\ Expected(Before) >= 2
  /\ HasSession

(***************************************************************************)
(* C7.  When the idle-timer expiry and a datagram for the same session     *)
(* race and the expiry terminates the session first, the datagram is the   *)
(* loser: it observes the terminated session and does nothing, so it sends *)
(* nothing (no ALIVE, no HELLO, no second GOODBYE) and starts no timer.    *)
(***************************************************************************)
C7_LoserDoesNothing ==
  (FromPeer /\ FullHeader /\ Terminated(Before))
    => /\ sent = <<>>
       /\ HasSession => TimerOf(After) = TimerOf(Before)
       /\ ~HasSession => \A o \in orphans : o.session_id # ev.dg.sid

(***************************************************************************)
(* C8.  When the idle timer of a session has expired, GOODBYE was sent and *)
(* the session is out of the table by the expiry itself: no session that   *)
(* is terminated stays stored, waiting for another datagram to remove it.  *)
(***************************************************************************)
C8_ExpiryRemoves ==
  /\ ev.op = "timeout" => SaidGoodbye
  /\ \A sid \in DOMAIN sessions : ~Terminated(sessions[sid])

(***************************************************************************)
(* C9.  Every protocol violation is answered with GOODBYE and removes the  *)
(* session: a datagram with wrong magic or version routed to a session in  *)
(* any state (also the one a HELLO just created), and a command other than *)
(* DATA or GOODBYE arriving at an ACTIVE session.                          *)
(***************************************************************************)
C9_ViolationTerminates ==
  /\ (Received /\ FullHeader /\ ~ValidHeader
        /\ (FromPeer \/ (~HadSession /\ ev.dg.command = HELLO)))
       => SaidGoodbye /\ ~HasSession
  /\ (FromPeer /\ ValidHeader /\ Active(Before)
        /\ ev.dg.command \notin {DATA, GOODBYE})
       => SaidGoodbye /\ ~HasSession

(***************************************************************************)
(* C10.  A datagram shorter than the 20-byte header is dropped: nothing is *)
(* sent, no session is created and the session stored under the id it      *)
(* carries (if any) is unchanged.                                          *)
(***************************************************************************)
C10_ShortDropped ==
  (Received /\ ~FullHeader)
    => /\ sent = <<>>
       /\ SessionUntouched

(***************************************************************************)
(* C11.  A valid GOODBYE from the bound peer of an ACTIVE session is       *)
(* answered by one GOODBYE and the session is gone from the table after    *)
(* the step; and a datagram with a full header that is not a HELLO and     *)
(* whose session id is not in the table (so any that follows the closing)  *)
(* is dropped: nothing is sent and no session appears.                     *)
(***************************************************************************)
C11_GoodbyeCloses ==
  /\ (FromPeer /\ ValidHeader /\ Active(Before) /\ ev.dg.command = GOODBYE)
       => /\ SaidGoodbye
          /\ sent[1].to = ev.dg.addr
          /\ sent[1].sid = ev.dg.sid
          /\ ~HasSession
  /\ (Received /\ ~HadSession /\ FullHeader /\ ev.dg.command # HELLO)
       => /\ sent = <<>>
          /\ ~HasSession

\* the peer of an ACTIVE session said GOODBYE and the session was closed
C11_Witness ==
  /\ FromPeer /\ ValidHeader /\ Active(Before)
  /\ ev.dg.command = GOODBYE
  /\ SaidGoodbye
  /\ ~HasSession

(***************************************************************************)
(* C12.  Only a HELLO whose session id is not in the table puts a session  *)
(* into the table: every step that adds a session id to the table received *)
(* a HELLO, and a step that receives a datagram with any other command and *)
(* a session id that is not in the table sends nothing and leaves the      *)
(* session table and the address table as they were.                       *)
(***************************************************************************)
C12_OnlyHelloCreates ==
  [][ /\ (DOMAIN sessions' \subseteq DOMAIN sessions)
           \/ (ev'.op = "datagram" /\ ev'.dg.command = HELLO
                 /\ ev'.dg.sid \notin DOMAIN sessions
                 /\ DOMAIN sessions' = DOMAIN sessions \cup {ev'.dg.sid})
      /\ (ev'.op = "datagram" /\ ev'.dg.command # HELLO
            /\ ev'.dg.sid \notin DOMAIN sessions)
           => /\ sent' = <<>>
              /\ sessions' = sessions
              /\ client_addresses' = client_addresses ]_vars

\* a DATA for a session id that is not in the table was dropped
C12_Witness ==
  /\ Received /\ ~HadSession
  /\ ValidHeader
  /\ ev.dg.command = DATA
  /\ sent = <<>>
  /\ ~HasSession

(***************************************************************************)
(* C16.  The server's logical clock is strictly greater after every step   *)
(* that receives a datagram with a valid header than before it, and every  *)
(* step raises it by at least the number of messages it sends (each send   *)
(* is one update, so no update is lost).                                   *)
(***************************************************************************)
C16_ClockAdvances ==
  [][ /\ (ev'.op = "datagram" /\ ev'.dg.len >= HEADER_LEN
            /\ ev'.dg.magic = MAGIC /\ ev'.dg.version = VERSION)
           => logical_clock' > logical_clock
      /\ logical_clock' >= logical_clock + Len(sent') ]_vars

(***************************************************************************)
(* C19.  No idle timer outlives its session: no step is the expiry of a    *)
(* timer whose session object has been removed from the table, so no       *)
(* timeout GOODBYE is sent for a closed session.                           *)
(***************************************************************************)
C19_NoTimeoutAfterClose ==
  ~(ev.op = "orphan_timeout" /\ SaidGoodbye)

(***************************************************************************)
(* C20.  Every header a session sends in answer to a HELLO, DATA or        *)
(* GOODBYE with a valid header that it processes (the datagram that        *)
(* creates it, or one from its bound peer) carries a logical clock         *)
(* strictly greater than the datagram's.                                   *)
(***************************************************************************)
C20_ReplyClockAfterPeer ==
  (/\ Received /\ ValidHeader
   /\ ev.dg.command \in {HELLO, DATA, GOODBYE}
   /\ HadSession => FromPeer)
    => \A i \in 1..Len(sent) :
         sent[i].fmt = "header" => sent[i].clock > ev.dg.clock

(***************************************************************************)
(* The clock update as a function of its inputs.  A run of ClockSpec picks *)
(* the class whose method is called (the servers share one text, the       *)
(* clients another), the value of the clock before the call and the        *)
(* argument (<<>> for None), and its one step makes the call: result is    *)
(* the value the method stores in logical_clock and returns.               *)
(***************************************************************************)
\* clock values before the call are 0..MaxLocal, received ones 0..MaxLocal+1
MaxLocal == 6

\* a server run that never starts: the value of the server's variables in
\* the runs of the other specifications
NoServer ==
  /\ impl = "none"
  /\ sessions = <<>>
  /\ client_addresses = <<>>
  /\ logical_clock = 0
  /\ orphans = {}
  /\ ev = [op |-> "init", dg |-> NoDatagram, pre |-> <<>>]
  /\ sent = <<>>
  /\ lost = {}
  /\ restarted = FALSE

ClockInit ==
  /\ NoServer
  /\ cli = NoClient
  /\ \E who \in {"server", "client"}, local \in 0..MaxLocal,
        received \in {<<>>} \cup {<<v>> : v \in 0..(MaxLocal + 1)} :
       fn = [op |-> "clock", who |-> who, local |-> local,
             received |-> received, result |-> <<>>]

Server_clock_call ==
  /\ fn.op = "clock" /\ fn.who = "server" /\ fn.result = <<>>
  /\ fn' = [fn EXCEPT !.result = <<update_logical_clock(fn.local, fn.received)>>]
  /\ UNCHANGED <<serverVars, cli>>

Client_clock_call ==
  /\ fn.op = "clock" /\ fn.who = "client" /\ fn.result = <<>>
  /\ fn' = [fn EXCEPT !.result = <<Client_update_logical_clock(fn.local, fn.received)>>]
  /\ UNCHANGED <<serverVars, cli>>

ClockNext == Server_clock_call \/ Client_clock_call

ClockSpec == ClockInit /\ [][ClockNext]_vars

(***************************************************************************)
(* C15.  The clock update of the servers and of the clients follows the    *)
(* merge rule: called with a received value v <= local it yields local+1,  *)
(* with v > local it yields v+1, and with no value it yields local+1; the  *)
(* value it yields is the new clock, which is what it returns.             *)
(***************************************************************************)
C15_MergeRule ==
  (fn.op = "clock" /\ fn.result # <<>>)
    => fn.result[1] =
         IF fn.received = <<>> THEN fn.local + 1
         ELSE IF fn.received[1] <= fn.local THEN fn.local + 1
         ELSE fn.received[1] + 1

\* a server merged a received value that was ahead of its clock
C15_Witness ==
  /\ fn.op = "clock" /\ fn.who = "server"
  /\ fn.result # <<>>
  /\ fn.received # <<>>
  /\ fn.received[1] > fn.local + 1
  /\ fn.result[1] = fn.received[1] + 1

(***************************************************************************)
(* The clients.  cli holds one client process: the threaded client of      *)
(* src/A/client.py (cli.impl = "A") or the asyncio client of               *)
(* src/B/client.py (cli.impl = "B").  The server is the environment: any   *)
(* reply may arrive at any time, timers may expire at any time after they  *)
(* were started, and the user may type at any time.                        *)
(*                                                                         *)
(*   sequence_number, logical_clock   the fields of those names            *)
(*   shutdown      A: shutdown_event is set                                *)
(*   closed        A: client_socket.close() was called; B: the transport   *)
(*                 was closed                                              *)
(*   main, input, recv   where the main thread (B: the HELLO task), the    *)
(*                 input thread (B: handle_user_input) and the receive     *)
(*                 thread of A are                                         *)
(*   idle_timer    A: the Timer self.idle_timer refers to is waiting       *)
(*   stray         A: Timers that wait and that no field refers to         *)
(*   firing        A: timer threads inside send_message, after sendto      *)
(*   out           the messages sent so far (command and sequence number)  *)
(*   got_hello     a HELLO reply was received                              *)
(*   why           what first made the client stop                         *)
(***************************************************************************)
\* no step is taken once the client's logical clock has reached this value
MaxClientClock == 9
\* messages one client sends
MaxOut == 4
\* timer threads of client A that are inside send_message at once
MaxTimerThreads == 1

\* a datagram from the server: its length, whether magic, version and
\* session id are the client's, its command and its logical clock
Reply(len, ok, command, clock) ==
  [len |-> len, ok |-> ok, command |-> command, clock |-> clock]

Replies ==
  { Reply(HEADER_LEN, TRUE, c, k) : c \in {HELLO, ALIVE, GOODBYE}, k \in {0, RecvClock} }
  \cup { Reply(HEADER_LEN, FALSE, GOODBYE, 0), Reply(HEADER_LEN - 1, TRUE, HELLO, 0) }

\* what the user types: a line of text, or the quit command
Lines == {"text", "q"}

Client(i, tty) ==
  [impl |-> i, tty |-> tty, sequence_number |-> 0, logical_clock |-> 0,
   shutdown |-> FALSE, closed |-> FALSE,
   main |-> "start", input |-> "unstarted", recv |-> "unstarted",
   idle_timer |-> FALSE, stray |-> 0, firing |-> 0,
   out |-> <<>>, got_hello |-> FALSE, why |-> "none"]

\* records the first reason for stopping
Why(c, w) == IF c.why = "none" THEN [c EXCEPT !.why = w] ELSE c

(***************************************************************************)
(* Client A (threads).                                                     *)
(***************************************************************************)
AC_update_logical_clock(c, new_value) ==
  [c EXCEPT !.logical_clock = Client_update_logical_clock(@, new_value)]

\* set_timer: a new Timer replaces the reference; the old one is not cancelled
AC_set_timer(c) ==
  [c EXCEPT !.stray = IF c.idle_timer THEN @ + 1 ELSE @,
            !.idle_timer = TRUE]

AC_cancel_timer(c) == [c EXCEPT !.idle_timer = FALSE]

\* send_message up to sendto: the clock tick, the header with the current
\* sequence number, the send
AC_sendto(c, command) ==
  LET c1 == AC_update_logical_clock(c, <<>>) IN
  [c1 EXCEPT !.out = Append(@, [command |-> command, seq |-> c1.sequence_number])]

\* send_message after sendto: the increment, and the event for GOODBYE
AC_sent(c, command) ==
  [c EXCEPT !.sequence_number = @ + 1,
            !.shutdown = @ \/ command = GOODBYE]

\* what every step of client A requires
AC_step ==
  /\ cli.impl = "A"
  /\ cli.logical_clock < MaxClientClock
  /\ UNCHANGED <<serverVars, fn>>

\* sendto is possible: the socket is open (and the model's message bound)
AC_can_send == ~cli.closed /\ Len(cli.out) < MaxOut

\* run, up to recvfrom: no other thread exists yet
AC_run_hello ==
  /\ AC_step
  /\ cli.main = "start"
  /\ LET c1 == AC_sent(AC_sendto(cli, HELLO), HELLO)
         c2 == AC_set_timer(AC_update_logical_clock(c1, <<>>))
     IN cli' = [c2 EXCEPT !.main = "handshake"]

\* run: recvfrom returned a datagram
AC_run_reply(m) ==
  /\ AC_step
  /\ cli.main = "handshake"
  /\ LET c1 == AC_cancel_timer(cli) IN
     IF m.len < HEADER_LEN
     THEN \* decode_message sets the event and returns None: TypeError
          cli' = Why([c1 EXCEPT !.shutdown = TRUE, !.main = "exited"], "error")
     ELSE LET c2 == AC_update_logical_clock(c1, <<>>) IN
          IF m.command # HELLO
          THEN \* sys.exit(1)
               cli' = Why([c2 EXCEPT !.main = "exited"], "error")
          ELSE cli' = [c2 EXCEPT !.main = "spawn", !.got_hello = TRUE]

\* run: socket.timeout, issue_timeout up to sendto
AC_run_timeout ==
  /\ AC_step
  /\ cli.main = "handshake"
  /\ AC_can_send
  /\ cli' = Why([AC_sendto(cli, GOODBYE) EXCEPT !.main = "sending"], "timeout")

\* run: the rest of issue_timeout
AC_run_sent ==
  /\ AC_step
  /\ cli.main = "sending"
  /\ cli' = [AC_sent(cli, GOODBYE) EXCEPT !.shutdown = TRUE, !.main = "spawn"]

\* run: the two threads are started
AC_run_spawn ==
  /\ AC_step
  /\ cli.main = "spawn"
  /\ cli' = [cli EXCEPT !.main = "wait",
                        !.input = IF cli.tty THEN "while" ELSE "for",
                        !.recv = "while"]

\* run: shutdown_event.wait() returned, the socket is closed
AC_run_close ==
  /\ AC_step
  /\ cli.main = "wait"
  /\ cli.shutdown
  /\ cli' = [cli EXCEPT !.main = "exited", !.closed = TRUE]

\* a Timer's wait ended: issue_timeout in the timer's thread, up to sendto.
\* The Timer is the one idle_timer refers to, or one of the others.
AC_timer_fire(current) ==
  /\ AC_step
  /\ AC_can_send
  /\ cli.firing < MaxTimerThreads
  /\ IF current THEN cli.idle_timer ELSE cli.stray > 0
  /\ LET c1 == IF current THEN [cli EXCEPT !.idle_timer = FALSE]
                           ELSE [cli EXCEPT !.stray = @ - 1]
     IN cli' = Why([AC_sendto(c1, GOODBYE) EXCEPT !.firing = @ + 1], "timeout")

\* the rest of issue_timeout in the timer's thread
AC_timer_sent ==
  /\ AC_step
  /\ ~cli.closed
  /\ cli.firing > 0
  /\ cli' = [AC_sent(cli, GOODBYE) EXCEPT !.shutdown = TRUE, !.firing = @ - 1]

\* handle_input on a terminal: the test of the while loop
AC_input_while ==
  /\ AC_step
  /\ ~cli.closed
  /\ cli.input = "while"
  /\ cli' = [cli EXCEPT !.input = IF cli.shutdown THEN "after" ELSE "select"]

\* handle_input on a terminal: select returned a line
AC_input_line(line) ==
  /\ AC_step
  /\ cli.input = "select"
  /\ LET c1 == AC_update_logical_clock(cli, <<>>) IN
     IF line = "q"
     THEN /\ ~cli.closed
          /\ cli' = Why([AC_update_logical_clock(c1, <<>>)
                           EXCEPT !.shutdown = TRUE, !.input = "while"], "quit")
     ELSE /\ AC_can_send
          /\ cli' = [AC_sendto(c1, DATA) EXCEPT !.input = "sent_data"]

\* handle_input on a terminal: select returned nothing for a second
AC_input_idle ==
  /\ AC_step
  /\ ~cli.closed
  /\ cli.input = "select"
  /\ cli' = [cli EXCEPT !.input = IF cli.shutdown THEN "after" ELSE "while"]

\* handle_input with stdin redirected: the next line of the file, or its end
AC_input_for(line) ==
  /\ AC_step
  /\ cli.input = "for"
  /\ IF line = "eof"
     THEN /\ ~cli.closed
          /\ cli' = [cli EXCEPT !.input = "after"]
     ELSE /\ AC_can_send
          /\ cli' = [AC_sendto(cli, DATA) EXCEPT !.input = "sent_data"]

\* handle_input: the rest of send_message, and set_timer after a DATA
AC_input_sent ==
  /\ AC_step
  /\ ~cli.closed
  /\ cli.input \in {"sent_data", "sent_goodbye"}
  /\ IF cli.input = "sent_data"
     THEN cli' = [AC_set_timer(AC_sent(cli, DATA))
                    EXCEPT !.input = IF cli.tty THEN "while" ELSE "for"]
     ELSE cli' = [AC_sent(cli, GOODBYE) EXCEPT !.input = "done"]

\* handle_input after the loop: "if not self.shutdown_event.is_set()"
AC_input_after ==
  /\ AC_step
  /\ cli.input = "after"
  /\ IF cli.shutdown
     THEN /\ ~cli.closed
          /\ cli' = [cli EXCEPT !.input = "done"]
     ELSE /\ AC_can_send
          /\ cli' = Why([AC_sendto(cli, GOODBYE) EXCEPT !.input = "sent_goodbye"], "eof")

\* receive_message: the test of the while loop
AC_recv_while ==
  /\ AC_step
  /\ ~cli.closed
  /\ cli.recv = "while"
  /\ cli' = [cli EXCEPT !.recv = IF cli.shutdown THEN "done" ELSE "recvfrom"]

\* receive_message: recvfrom returned a datagram
AC_recv_datagram(m) ==
  /\ AC_step
  /\ ~cli.closed
  /\ cli.recv = "recvfrom"
  /\ LET c1 == AC_cancel_timer(cli) IN
     IF m.len < HEADER_LEN
     THEN \* decode_message sets the event and returns None: TypeError
          cli' = Why([c1 EXCEPT !.shutdown = TRUE, !.recv = "done"], "error")
     ELSE LET c2 == AC_update_logical_clock(c1, <<m.clock>>) IN
          IF m.command = GOODBYE
          THEN cli' = Why([c2 EXCEPT !.shutdown = TRUE, !.recv = "while"], "goodbye")
          ELSE cli' = [c2 EXCEPT !.recv = "while"]

\* receive_message: socket.timeout, issue_timeout up to sendto
AC_recv_timeout ==
  /\ AC_step
  /\ AC_can_send
  /\ cli.recv = "recvfrom"
  /\ cli' = Why([AC_sendto(cli, GOODBYE) EXCEPT !.recv = "sending"], "timeout")

\* receive_message: the rest of issue_timeout
AC_recv_sent ==
  /\ AC_step
  /\ ~cli.closed
  /\ cli.recv = "sending"
  /\ cli' = [AC_sent(cli, GOODBYE) EXCEPT !.shutdown = TRUE, !.recv = "while"]

(***************************************************************************)
(* Client B (asyncio).  Every coroutine step below runs without a          *)
(* suspension point, so it is one step of the model.  After                *)
(* transport.close() sendto sends nothing and connection_lost stops the    *)
(* loop: a closed client takes no more steps.                              *)
(***************************************************************************)
\* send_message: the header carries the clock as it is before the update
BC_send_message(c, command) ==
  [c EXCEPT !.out = Append(@, [command |-> command, seq |-> c.sequence_number]),
            !.sequence_number = @ + 1,
            !.logical_clock = Client_update_logical_clock(@, <<>>)]

\* what every step of client B requires
BC_step ==
  /\ cli.impl = "B"
  /\ cli.logical_clock < MaxClientClock
  /\ ~cli.closed
  /\ UNCHANGED <<serverVars, fn>>

\* the task connection_made creates; it is first in the loop's queue
BC_connection_made ==
  /\ BC_step
  /\ cli.main = "start"
  /\ cli' = [BC_send_message(cli, HELLO) EXCEPT !.main = "running", !.input = "input"]

\* handle_user_input: input() returned a line
BC_handle_user_input(line) ==
  /\ BC_step
  /\ cli.input = "input"
  /\ Len(cli.out) < MaxOut
  /\ LET c1 == [cli EXCEPT !.logical_clock = Client_update_logical_clock(@, <<>>)] IN
     IF line = "q"
     THEN \* break, GOODBYE, and the finally of start
          cli' = Why([BC_send_message(c1, GOODBYE)
                        EXCEPT !.closed = TRUE, !.input = "done"], "quit")
     ELSE cli' = [BC_send_message(c1, DATA) EXCEPT !.input = "sleep"]

\* send_data: the sleep of a tenth of a second ended
BC_send_data_done ==
  /\ BC_step
  /\ cli.input = "sleep"
  /\ cli' = [cli EXCEPT !.input = "input"]

\* datagram_received and the handle_response task it creates
BC_handle_response(m) ==
  /\ BC_step
  /\ cli.main = "running"
  /\ IF m.len < HEADER_LEN
     THEN \* struct.error ends the task
          cli' = cli
     ELSE LET c1 == [cli EXCEPT !.logical_clock =
                                  Client_update_logical_clock(@, <<m.clock>>)]
          IN IF ~m.ok THEN cli' = c1
             ELSE IF m.command = ALIVE THEN cli' = c1
             ELSE IF m.command = GOODBYE
             THEN cli' = Why([c1 EXCEPT !.closed = TRUE], "goodbye")
             ELSE cli' = [c1 EXCEPT !.got_hello = @ \/ m.command = HELLO]

(***************************************************************************)
(* A run of one client.                                                    *)
(***************************************************************************)
ClientInit ==
  /\ NoServer
  /\ fn = NoCall
  /\ cli \in {Client("A", TRUE), Client("A", FALSE), Client("B", TRUE)}

ClientNext ==
  \/ AC_run_hello
  \/ \E m \in Replies : AC_run_reply(m)
  \/ AC_run_timeout
  \/ AC_run_sent
  \/ AC_run_spawn
  \/ AC_run_close
  \/ \E current \in BOOLEAN : AC_timer_fire(current)
  \/ AC_timer_sent
  \/ AC_input_while
  \/ \E line \in Lines : AC_input_line(line)
  \/ AC_input_idle
  \/ \E line \in {"text", "eof"} : AC_input_for(line)
  \/ AC_input_sent
  \/ AC_input_after
  \/ AC_recv_while
  \/ \E m \in Replies : AC_recv_datagram(m)
  \/ AC_recv_timeout
  \/ AC_recv_sent
  \/ BC_connection_made
  \/ \E line \in Lines : BC_handle_user_input(line)
  \/ BC_send_data_done
  \/ \E m \in Replies : BC_handle_response(m)

ClientSpec == ClientInit /\ [][ClientNext]_vars

(***************************************************************************)
(* Vocabulary of the client claims.                                        *)
(***************************************************************************)
\* the client has sent a message with this command
HasSent(command) == \E i \in 1..Len(cli.out) : cli.out[i].command = command

\* the client process has ended its session: A closed its socket and left
\* run, B closed its transport
ClientTerminated ==
  IF cli.impl = "A" THEN cli.main = "exited" /\ cli.closed ELSE cli.closed

\* Timers of the client that are waiting to expire
PendingTimers == (IF cli.idle_timer THEN 1 ELSE 0) + cli.stray

(***************************************************************************)
(* C13.  The first message a client sends is HELLO, and a client that has  *)
(* sent a DATA has received a HELLO reply before (so a client whose        *)
(* handshake timed out, or whose first reply was not HELLO, sends no       *)
(* DATA).                                                                  *)
(***************************************************************************)
C13_HandshakeBeforeData ==
  /\ cli.out # <<>> => cli.out[1].command = HELLO
  /\ HasSent(DATA) => cli.got_hello

(***************************************************************************)
(* C14.  A client that completed the handshake and stopped because the     *)
(* server said GOODBYE or because the user typed the quit command has sent *)
(* a GOODBYE by the time it has terminated.                                *)
(***************************************************************************)
C14_GoodbyeBeforeExit ==
  (ClientTerminated /\ cli.got_hello /\ cli.why \in {"goodbye", "quit"})
    => HasSent(GOODBYE)

(***************************************************************************)
(* C18.  A client that completed its handshake has at most one idle timer  *)
(* waiting at any moment: starting a timer leaves no earlier one that      *)
(* could still expire and send GOODBYE after an ALIVE cleared the latest.  *)
(***************************************************************************)
C18_OneTimer == cli.got_hello => PendingTimers <= 1

(***************************************************************************)
(* The header codec: struct.pack / struct.unpack with the format "!HBBIIQ" *)
(* (network byte order, no padding) on sequences of bytes, and Python's    *)
(* slices.  A run of CodecSpec picks the fields and the payload, packs     *)
(* them as send_message does, and then decodes the bytes as handle_message *)
(* does and as datagram_received of server A does.                         *)
(***************************************************************************)
\* payloads are 0..MaxPayload bytes long
MaxPayload == 2

\* one field of width n bytes stores only the low byte of its value
BE_LowByteOnly(v, n) == [i \in 1..n |-> IF i = n THEN v % 256 ELSE 0]

RECURSIVE BE(_, _)
\* the n bytes of the unsigned integer v, most significant first
BE(v, n) == IF n = 0 THEN <<>> ELSE Append(BE(v \div 256, n - 1), v % 256)

RECURSIVE FromBE(_)
\* the unsigned integer a sequence of bytes holds, most significant first
FromBE(bytes) ==
  IF bytes = <<>> THEN 0
  ELSE FromBE(SubSeq(bytes, 1, Len(bytes) - 1)) * 256 + bytes[Len(bytes)]

\* data[lo:hi]
Slice(data, lo, hi) ==
  SubSeq(data, lo + 1, IF hi < Len(data) THEN hi ELSE Len(data))

\* struct.pack("!HBBIIQ", magic, version, command, seq, session_id, clock)
pack_header(magic, version, command, sequence_number, session_id, clock) ==
  BE(magic, 2) \o BE(version, 1) \o BE(command, 1)
    \o BE(sequence_number, 4) \o BE(session_id, 4) \o BE(clock, 8)

\* send_message: the header, followed by the payload if there is one
encode(command, sequence_number, session_id, clock, data) ==
  LET header == pack_header(MAGIC, VERSION, command, sequence_number, session_id, clock)
  IN IF data # <<>> THEN header \o data ELSE header

\* struct.unpack("!HBBIIQ", message[:20]) and message[20:]
unpack_header(message) ==
  LET header == Slice(message, 0, HEADER_LEN) IN
  [magic |-> FromBE(Slice(header, 0, 2)),
   version |-> FromBE(Slice(header, 2, 3)),
   command |-> FromBE(Slice(header, 3, 4)),
   seq |-> FromBE(Slice(header, 4, 8)),
   sid |-> FromBE(Slice(header, 8, 12)),
   clock |-> FromBE(Slice(header, 12, 20)),
   payload |-> Slice(message, HEADER_LEN, Len(message))]

\* the three fields datagram_received of server A unpacks from slices
A_dispatch_fields(data) ==
  [sid |-> FromBE(Slice(data, 8, 12)),
   seq |-> FromBE(Slice(data, 4, 8)),
   command |-> FromBE(Slice(data, 3, 4))]

\* values of a 4-byte field: the ends of each byte's range, up to the
\* largest value the checker's integers hold
Words == {0, 1, 255, 256, 65535, 65536, 16777216 + 258, 127 * 16777216 + 16777215}

Commands == {HELLO, DATA, ALIVE, GOODBYE}

\* the payload of n bytes
PayloadOf(n) == [i \in 1..n |-> 250 + i]

CodecInit ==
  /\ NoServer
  /\ cli = NoClient
  /\ \E command \in Commands, seq \in Words, sid \in {0, 1, 65536 + 255},
        clock \in {0, 255, 256, 127 * 16777216 + 16777215}, n \in 0..MaxPayload :
       fn = [op |-> "codec", command |-> command, seq |-> seq, sid |-> sid,
             clock |-> clock, payload |-> PayloadOf(n),
             bytes |-> <<>>, decoded |-> <<>>, dispatch |-> <<>>]

\* send_message packs the fields
Codec_encode ==
  /\ fn.op = "codec" /\ fn.bytes = <<>>
  /\ fn' = [fn EXCEPT !.bytes = encode(fn.command, fn.seq, fn.sid, fn.clock, fn.payload)]
  /\ UNCHANGED <<serverVars, cli>>

\* handle_message unpacks the 20 bytes and takes the rest as payload
Codec_decode ==
  /\ fn.op = "codec" /\ fn.bytes # <<>> /\ fn.decoded = <<>>
  /\ fn' = [fn EXCEPT !.decoded = <<unpack_header(fn.bytes)>>]
  /\ UNCHANGED <<serverVars, cli>>

\* datagram_received of server A unpacks its three slices
Codec_dispatch ==
  /\ fn.op = "codec" /\ fn.bytes # <<>> /\ fn.dispatch = <<>>
  /\ fn' = [fn EXCEPT !.dispatch = <<A_dispatch_fields(fn.bytes)>>]
  /\ UNCHANGED <<serverVars, cli>>

CodecNext == Codec_encode \/ Codec_decode \/ Codec_dispatch

CodecSpec == CodecInit /\ [][CodecNext]_vars

(***************************************************************************)
(* C17.  The encoding of (command, sequence number, session id, clock,     *)
(* payload) is 20 + len(payload) bytes holding, in this order, the magic   *)
(* (2 bytes), the version (1), the command (1), the sequence number (4),   *)
(* the session id (4) and the clock (8), each most significant byte first, *)
(* then the payload; decoding it gives back the fields and the payload;    *)
(* and the command, sequence number and session id server A's dispatch     *)
(* takes from byte offsets are those of the full decode.                   *)
(***************************************************************************)
C17_RoundTrip ==
  /\ (fn.op = "codec" /\ fn.bytes # <<>>)
       => LET b == fn.bytes IN
          /\ Len(b) = HEADER_LEN + Len(fn.payload)
          /\ b[1] * 256 + b[2] = MAGIC
          /\ b[3] = VERSION
          /\ b[4] = fn.command
          /\ ((b[5] * 256 + b[6]) * 256 + b[7]) * 256 + b[8] = fn.seq
          /\ ((b[9] * 256 + b[10]) * 256 + b[11]) * 256 + b[12] = fn.sid
          /\ \A i \in 13..16 : b[i] = 0
          /\ ((b[17] * 256 + b[18]) * 256 + b[19]) * 256 + b[20] = fn.clock
          /\ \A i \in 1..Len(b) : b[i] \in 0..255
          /\ \A i \in 1..Len(fn.payload) : b[HEADER_LEN + i] = fn.payload[i]
  /\ (fn.op = "codec" /\ fn.decoded # <<>>)
       => fn.decoded[1] =
            [magic |-> MAGIC, version |-> VERSION, command |-> fn.command,
             seq |-> fn.seq, sid |-> fn.sid, clock |-> fn.clock,
             payload |-> fn.payload]
  /\ (fn.op = "codec" /\ fn.dispatch # <<>>)
       => /\ fn.dispatch[1].command = unpack_header(fn.bytes).command
          /\ fn.dispatch[1].seq = unpack_header(fn.bytes).seq
          /\ fn.dispatch[1].sid = unpack_header(fn.bytes).sid
          /\ fn.dispatch[1].command = fn.command

\* a DATA whose fields fill more than one byte, with a payload, was encoded,
\* decoded and dispatched
C17_Witness ==
  /\ fn.op = "codec"
  /\ fn.command = DATA /\ fn.seq > 65536 /\ fn.sid > 65536 /\ fn.clock > 256
  /\ Len(fn.payload) = 2
  /\ fn.decoded # <<>> /\ fn.dispatch # <<>>
  /\ fn.decoded[1].seq = fn.seq
  /\ fn.dispatch[1].sid = fn.sid

(***************************************************************************)
(* C21.  Every message a session accepts from its peer restarts the idle   *)
(* window: a step that answers a valid HELLO with HELLO or a valid DATA    *)
(* with ALIVE (in order, or after a gap) and keeps the session has started *)
(* the session's idle timer anew, so the timer that can expire next was    *)
(* started by the last accepted message.                                   *)
(***************************************************************************)
C21_AcceptedRestartsTimer ==
  (/\ Received /\ ValidHeader
   /\ HadSession => FromPeer
   /\ HasSession
   /\ Len(sent) = 1
   /\ sent[1].fmt = "header"
   /\ sent[1].command \in {HELLO, ALIVE})
    => /\ restarted
       /\ TimerOf(After)

(***************************************************************************)
(* C22.  The handling of a datagram for a session never runs while a timer *)
(* expiry of that session is under way: when a datagram from the peer is   *)
(* handled, no timer thread of the session is between its GOODBYE (which   *)
(* reads the expected sequence number) and its write of the active flag.   *)
(* (Server A runs both on one event loop without a suspension point, so    *)
(* the question arises for the threaded server only.)                      *)
(***************************************************************************)
C22_NoOverlap ==
  (impl = "B" /\ FromPeer /\ ValidHeader) => Before.closing = 0

(***************************************************************************)
(* C23.  The messages a client has sent carry the sequence numbers         *)
(* 0, 1, 2, ... in the order they were sent: the i-th message sent carries *)
(* i-1, so no number is used twice.                                        *)
(***************************************************************************)
C23_SequenceInOrder ==
  \A i \in 1..Len(cli.out) : cli.out[i].seq = i - 1

(***************************************************************************)
(* The clock and the 8-byte header field.  struct.pack raises struct.error *)
(* for a 'Q' value outside 0..2^64-1; Python's integers are unbounded, so  *)
(* update_logical_clock itself never wraps.  The checker's integers are    *)
(* 32 bits wide, so the field is scaled: ClockFieldMax stands for 2^64-1,  *)
(* the largest value the field holds and the largest a datagram can carry. *)
(* A run of StampSpec is one server process: it receives clock values and  *)
(* sends messages in any order.                                            *)
(***************************************************************************)
\* the largest value of the (scaled) clock field
ClockFieldMax == 7
\* sends of one run
MaxStamps == 3

\* struct.pack accepts the value for the format 'Q'
Q_in_range(v) == 0 <= v /\ v <= ClockFieldMax

StampInit ==
  /\ NoServer
  /\ cli = NoClient
  /\ fn = [op |-> "stamp", clock |-> 0, last |-> "start", received |-> <<>>,
           stamped |-> <<>>, failed |-> FALSE, sends |-> 0]

\* a datagram with clock value v is received and merged
Stamp_receive(v) ==
  /\ fn.op = "stamp"
  /\ fn.clock <= ClockFieldMax
  /\ fn' = [fn EXCEPT !.clock = update_logical_clock(@, <<v>>),
                      !.last = "receive", !.received = <<v>>]
  /\ UNCHANGED <<serverVars, cli>>

\* send_message: the clock tick, then struct.pack of the header
Stamp_send ==
  /\ fn.op = "stamp"
  /\ fn.sends < MaxStamps
  /\ LET c == update_logical_clock(fn.clock, <<>>) IN
     fn' = [fn EXCEPT !.clock = c,
                      !.last = "send",
                      !.stamped = IF Q_in_range(c) THEN <<c>> ELSE <<>>,
                      !.failed = ~Q_in_range(c),
                      !.sends = @ + 1]
  /\ UNCHANGED <<serverVars, cli>>

StampNext ==
  \/ \E v \in 0..ClockFieldMax : Stamp_receive(v)
  \/ Stamp_send

StampSpec == StampInit /\ [][StampNext]_vars

(***************************************************************************)
(* C24.  Whatever clock values a process has received (any value the       *)
(* 8-byte field can carry, the largest included) and however many messages *)
(* it has sent, a send stamps its header: the clock it packs is within the *)
(* range of the field and struct.pack does not fail.                       *)
(***************************************************************************)
C24_StampNeverFails ==
  (fn.op = "stamp" /\ fn.last = "send")
    => /\ ~fn.failed
       /\ fn.stamped # <<>>
       /\ Q_in_range(fn.clock)

(***************************************************************************)
(* C25.  Once the threaded client has sent GOODBYE or has set its shutdown *)
(* event, no step sends a datagram: so it sends at most one GOODBYE, no    *)
(* DATA after it, and nothing after the event is set.                      *)
(***************************************************************************)
C25_NothingAfterGoodbye ==
  [][ (cli.impl = "A" /\ (cli.shutdown \/ HasSent(GOODBYE)))
        => cli'.out = cli.out ]_vars

====
